---------------------------- MODULE Spec2Model ----------------------------
(***************************************************************************)
(* A model of the ProgSnap2 converters (converters/progsnap2.py and        *)
(* converters/blockpy_to_progsnap2.py): the snapshot store, the event      *)
(* table, its finalization, the BlockPy classifier and the exporter.       *)
(*                                                                         *)
(* Conventions.  A text (code, file contents, a BlockPy action) is a       *)
(* sequence of one-character strings, so that startswith, lower and        *)
(* concatenation are computed.  Names (columns, paths, ids of subjects)    *)
(* are strings.  Python's None for an optional integer is the empty        *)
(* sequence <<>> and the integer n is <<n>>.                               *)
(***************************************************************************)
EXTENDS Integers, Sequences, FiniteSets, TLC

VARIABLES
    code_files,     \* ProgSnap2.code_files: snapshot key -> id
    CODE_ID,        \* ProgSnap2.CODE_ID
    main_table,     \* ProgSnap2.main_table: sequence of Event objects
    MAX_EVENT_ID,   \* Event.MAX_EVENT_ID (class attribute)
    code_states_fs, \* <directory>/CodeStates on disk
    main_table_csv, \* <directory>/MainTable.csv on disk
    metadata_csv,   \* <directory>/DatasetMetadata.csv on disk
    issued,         \* history: (submitted snapshot, returned id) pairs
    firstSeen,      \* history: distinct non-empty snapshots, first-seen order
    pre_table,      \* history: main_table as it was when finalize_table began
    last,           \* history: the last call and how it ended
    scen            \* history: progress through the round-trip scenario

vars == <<code_files, CODE_ID, main_table, MAX_EVENT_ID, code_states_fs,
          main_table_csv, metadata_csv, issued, firstSeen, pre_table, last,
          scen>>

storeVars == <<code_files, CODE_ID, issued, firstSeen>>
diskVars == <<code_states_fs, main_table_csv, metadata_csv>>

(***************************************************************************)
(* Bounds of the model.                                                    *)
(***************************************************************************)
MaxSnapshots == 2   \* registrations stop once CODE_ID exceeds this
MaxEvents == 3      \* events logged into one table

(***************************************************************************)
(* Generic helpers.                                                        *)
(***************************************************************************)
Unset == <<>>
Some(n) == <<n>>
IsUnset(v) == v = <<>>

Range(f) == {f[x] : x \in DOMAIN f}

EmptyMap == [x \in {} |-> x]

\* The order of Python's str comparison on the names the model uses
\* (code points: upper case before '_' before lower case).
StrOrder == <<"EditType", "ParentEventID", "X-Note", "__main__.py", "a.py", "b.py">>
StrIndex == [s \in Range(StrOrder) |-> CHOOSE i \in 1..Len(StrOrder) : StrOrder[i] = s]
StrRank(s) == StrIndex[s]
StrLess(a, b) == StrRank(a) < StrRank(b)

Digit(d) == <<"0", "1", "2", "3", "4", "5", "6", "7", "8", "9">>[d + 1]

\* Code-point order of the characters of a timestamp.
CharOrder == <<"0", "1", "2", "3", "4", "5", "6", "7", "8", "9", ":">>
CharIndex == [c \in Range(CharOrder) |-> CHOOSE i \in 1..Len(CharOrder) : CharOrder[i] = c]
CharRank(c) == CharIndex[c]

RECURSIVE TextLess(_, _)
\* a < b for two str values: lexicographic, a proper prefix is smaller.
TextLess(a, b) ==
    IF b = <<>> THEN FALSE
    ELSE IF a = <<>> THEN TRUE
    ELSE IF Head(a) # Head(b) THEN CharRank(Head(a)) < CharRank(Head(b))
    ELSE TextLess(Tail(a), Tail(b))

RECURSIVE Decimal(_)
\* str(n) for a non-negative int.
Decimal(n) == IF n < 10 THEN <<Digit(n)>> ELSE Decimal(n \div 10) \o <<Digit(n % 10)>>

(***************************************************************************)
(* The snapshot store: ProgSnap2.__init__, log_code_state,                 *)
(* hash_code_directory.                                                    *)
(***************************************************************************)
Print1 == <<"p", "r", "i", "n", "t", "(", "1", ")">>
Print2 == <<"p", "r", "i", "n", "t", "(", "2", ")">>
Codes == {<<>>, Print1, Print2}

Paths == {"a.py", "b.py"}
Locators == {"z1", "z2", "z3"}

\* The archive the mappings point into; two members hold the same text.
Archive == [l \in Locators |-> IF l = "z3" THEN <<"y">> ELSE <<"x">>]

load_file_contents(zipped, path) == zipped[path]

\* A dict key of code_files: a str, or a tuple of (path, contents) tuples.
StrKey(s) == [isStr |-> TRUE, str |-> s, files |-> <<>>]
DirKey(t) == [isStr |-> FALSE, str |-> <<>>, files |-> t]

\* A submission: a str, or a dict path -> locator in its insertion order.
StrSubmission(s) == [isStr |-> TRUE, str |-> s, items |-> <<>>]
DictSubmission(items) == [isStr |-> FALSE, str |-> <<>>, items |-> items]

Mappings ==
    {<<>>}
    \cup {<<<<p, l>>>> : p \in Paths, l \in Locators}
    \cup {<<<<pq[1], l>>, <<pq[2], m>>>> :
              pq \in {x \in Paths \X Paths : x[1] # x[2]}, l \in Locators, m \in Locators}

Submissions == {StrSubmission(s) : s \in Codes} \cup {DictSubmission(m) : m \in Mappings}

\* Tuples (path, contents) compare by path first; the paths of one dict differ.
FileLess(a, b) == StrLess(a[1], b[1])

\* A key that ignores the client timestamp, as get_order would be without
\* its first component.
get_order_by_server(event) == event.ServerTimestamp

get_order(event) == event.ClientTimestamp

OrderLess(a, b) == TextLess(get_order(a), get_order(b))

ARBITRARY_COLUMN_ORDER ==
    <<"EventID", "Order", "SubjectID", "AssignmentID", "EventType", "CodeStateID",
      "ClientTimestamp", "Score", "EditType", "CompileMessageType", "ExecutionResult",
      "ProgramErrorOutput", "InterventionType", "InterventionMessage", "ServerTimestamp",
      "ToolInstances">>

\* The first component of Event.get_parameter_order(parameter).
\* ARBITRARY_COLUMN_ORDER.index(parameter)
ColumnIndex ==
    [c \in Range(ARBITRARY_COLUMN_ORDER) |->
        (CHOOSE i \in 1..Len(ARBITRARY_COLUMN_ORDER) : ARBITRARY_COLUMN_ORDER[i] = c) - 1]

get_parameter_order(parameter) ==
    IF parameter \in DOMAIN ColumnIndex THEN ColumnIndex[parameter]
    ELSE Len(ARBITRARY_COLUMN_ORDER)

\* (index, parameter) < (index, parameter) on tuples.
ParameterLess(a, b) ==
    \/ get_parameter_order(a) < get_parameter_order(b)
    \/ /\ get_parameter_order(a) = get_parameter_order(b)
       /\ a # b
       /\ StrLess(a, b)

\* The strict order of the keys of the sorts of the program.
KeyLess(key, a, b) ==
    CASE key = "file" -> FileLess(a, b)
      [] key = "get_order" -> OrderLess(a, b)
      [] key = "get_parameter_order" -> ParameterLess(a, b)

RECURSIVE InsertBy(_, _, _)
\* Insert x after every element of the sorted sequence s whose key is not
\* greater: the insertion step of a stable sort (list.sort and sorted are
\* stable).  key names the key function of the call.
InsertBy(key, x, s) ==
    IF s = <<>> THEN <<x>>
    ELSE IF KeyLess(key, x, Head(s)) THEN <<x>> \o s
    ELSE <<Head(s)>> \o InsertBy(key, x, Tail(s))

RECURSIVE SortBy(_, _)
SortBy(key, s) ==
    IF s = <<>> THEN <<>>
    ELSE InsertBy(key, s[Len(s)], SortBy(key, SubSeq(s, 1, Len(s) - 1)))


LoadAll(items, zipped) ==
    [i \in 1..Len(items) |-> <<items[i][1], load_file_contents(zipped, items[i][2])>>]

\* tuple(code): the canonical form without sorted().
UnsortedCode(code) == code

CanonicalCode(code) == SortBy("file", code)

\* The argument log_code_state hands to hash_code_directory.
CodeOf(submission, zipped) ==
    IF submission.isStr THEN StrKey(submission.str)
    ELSE DirKey(CanonicalCode(LoadAll(submission.items, zipped)))

\* A store that starts with no snapshot at all.
NoInitialSnapshot == EmptyMap

InitCodeFiles == (StrKey(<<>>) :> 0)
InitCodeId == 1

\* A CODE_ID += 2 in place of += 1.
SkippingCodeId(n) == n + 2

NextCodeId(n) == n + 1

\* The snapshot as the claims speak of it: a string, or a set of
\* (path, contents) pairs.
RepOfSubmission(submission, zipped) ==
    [isStr |-> submission.isStr,
     str |-> submission.str,
     files |-> {<<submission.items[i][1], zipped[submission.items[i][2]]>> :
                    i \in 1..Len(submission.items)}]

RepOfKey(code) ==
    [isStr |-> code.isStr, str |-> code.str,
     files |-> {code.files[i] : i \in 1..Len(code.files)}]

\* The paths of a mapping or tuple, in the order submitted.
KeyOrder(items) == [i \in 1..Len(items) |-> items[i][1]]

EmptyRep == [isStr |-> TRUE, str |-> <<>>, files |-> {}]

\* A raw BlockPy record; its timestamp is None, a str or an int.
NullTimestamp == [kind |-> "null", text |-> <<>>, val |-> 0]
StrTimestamp(t) == [kind |-> "str", text |-> t, val |-> 0]
IntTimestamp(n) == [kind |-> "int", text |-> <<>>, val |-> n]

Record(ts, event, action, body) ==
    [timestamp |-> ts, event |-> event, action |-> action, body |-> body,
     date_created |-> <<"0", "0", ":", "5", "9", ".", "5">>, user_id |-> "u1", assignment_id |-> "a1"]

NoRecord == Record(NullTimestamp, "", <<>>, <<>>)

\* What map_blockpy_event_to_progsnap gives: a dict, a str, None, or the
\* exception it raises.
Outcome(kind, EventType, Score, optional) ==
    [kind |-> kind, EventType |-> EventType, Score |-> Score, optional |-> optional]
Raised == Outcome("raise", "", Unset, EmptyMap)
ReturnsNone == Outcome("None", "", Unset, EmptyMap)
ReturnsStr(EventType) == Outcome("str", EventType, Unset, EmptyMap)
ReturnsDict(EventType, Score, optional) == Outcome("dict", EventType, Score, optional)

\* The history of one call: which, on what record (log_blockpy_event), how
\* it ended, the directories CodeStates held when it began (exports), the
\* classification (map_blockpy_event_to_progsnap).
Call(op) == [op |-> op, record |-> NoRecord, outcome |-> "returned", replaced |-> {},
             result |-> ReturnsNone]

\* The id hash_code_directory(code) returns.
CodeStateIDOf(code) == IF code \in DOMAIN code_files THEN code_files[code] ELSE CODE_ID

\* hash_code_directory(code), with the history of what was returned for rep.
Register(code, rep, order) ==
    /\ IF code \in DOMAIN code_files
          THEN UNCHANGED <<code_files, CODE_ID>>
          ELSE /\ code_files' = (code :> CODE_ID) @@ code_files
               /\ CODE_ID' = NextCodeId(CODE_ID)
    /\ issued' = issued \cup {<<rep, CodeStateIDOf(code), order>>}
    /\ firstSeen' = IF rep = EmptyRep \/ rep \in Range(firstSeen)
                       THEN firstSeen ELSE Append(firstSeen, rep)

LogCodeState(submission) ==
    /\ CODE_ID <= MaxSnapshots
    /\ Register(CodeOf(submission, Archive), RepOfSubmission(submission, Archive),
                KeyOrder(submission.items))
    /\ last' = Call("log_code_state")
    /\ UNCHANGED <<main_table, MAX_EVENT_ID, diskVars, pre_table, scen>>

\* Direct calls pass what the docstring asks for: a str, or a tuple sorted
\* by file name.
DirectCodes == {CodeOf(s, Archive) : s \in Submissions}

HashCodeDirectory(code) ==
    /\ CODE_ID <= MaxSnapshots
    /\ Register(code, RepOfKey(code), KeyOrder(code.files))
    /\ last' = Call("hash_code_directory")
    /\ UNCHANGED <<main_table, MAX_EVENT_ID, diskVars, pre_table, scen>>

(***************************************************************************)
(* export_code_states and _new_code_states_directory.  CodeStates on disk  *)
(* is a map from directory name to that directory's files (name -> text).  *)
(***************************************************************************)
NoDirectory == [exists |-> FALSE, dirs |-> EmptyMap]
Directory(dirs) == [exists |-> TRUE, dirs |-> dirs]

\* What CodeStates may hold before an export: nothing, an empty directory,
\* the output of an earlier run with other ids, stale files under an id
\* this run uses too.
PriorCodeStates ==
    {NoDirectory,
     Directory(EmptyMap),
     Directory((<<"7">> :> ("__main__.py" :> <<"o", "l", "d">>))
               @@ (<<"1">> :> ("b.py" :> <<"o", "l", "d">>))
               @@ (<<"1", "2">> :> EmptyMap))}

\* os.mkdir on top of what is there: the directory without the wipe.
MergingCodeStatesDirectory(fs) == IF fs.exists THEN fs ELSE Directory(EmptyMap)

\* os.rename(CodeStates, __CodeStates__); shutil.rmtree(__CodeStates__);
\* os.mkdir(CodeStates).  The dummy directory is created and removed within
\* the call, so none is left between calls.
NewCodeStatesDirectory(fs) == Directory(EmptyMap)

RECURSIVE WriteFiles(_, _)
\* for filename, contents in files: open(..., 'w').write(contents)
WriteFiles(dir, files) ==
    IF files = <<>> THEN dir
    ELSE WriteFiles((Head(files)[1] :> Head(files)[2]) @@ dir, Tail(files))

\* The body of the loop of export_code_states for one item of code_files.
WriteCodeState(dirs, key, CodeStateID) ==
    LET name == Decimal(CodeStateID)
        made == IF name \in DOMAIN dirs THEN dirs ELSE (name :> EmptyMap) @@ dirs
        filled == IF key.isStr
                     THEN ("__main__.py" :> key.str) @@ made[name]
                     ELSE WriteFiles(made[name], key.files)
    IN  (name :> filled) @@ made

RECURSIVE WriteCodeStates(_, _, _)
WriteCodeStates(dirs, keys, files) ==
    IF keys = {} THEN dirs
    ELSE LET key == CHOOSE k \in keys : \A o \in keys : files[k] <= files[o]
         IN  WriteCodeStates(WriteCodeState(dirs, key, files[key]), keys \ {key}, files)

ExportedCodeStates(fs, files) ==
    Directory(WriteCodeStates(NewCodeStatesDirectory(fs).dirs, DOMAIN files, files))

ExportCodeStates ==
    /\ code_states_fs' = ExportedCodeStates(code_states_fs, code_files)
    /\ last' = [Call("export_code_states") EXCEPT !.replaced = DOMAIN code_states_fs.dirs]
    /\ UNCHANGED <<storeVars, main_table, MAX_EVENT_ID, main_table_csv, metadata_csv,
                   pre_table, scen>>

(***************************************************************************)
(* The store on its own: registrations and snapshot exports.               *)
(***************************************************************************)
InitObject ==
    /\ code_files = InitCodeFiles
    /\ CODE_ID = InitCodeId
    /\ main_table = <<>>
    /\ MAX_EVENT_ID = 0
    /\ main_table_csv = [exists |-> FALSE, header |-> <<>>, rows |-> <<>>]
    /\ metadata_csv = <<>>
    /\ issued = {}
    /\ firstSeen = <<>>
    /\ pre_table = <<>>
    /\ last = Call("__init__")
    /\ scen = 0

InitStore == InitObject /\ code_states_fs \in PriorCodeStates

NextStore ==
    \/ \E s \in Submissions : LogCodeState(s)
    \/ \E c \in DirectCodes : HashCodeDirectory(c)
    \/ ExportCodeStates

SpecStore == InitStore /\ [][NextStore]_vars

\* C1: two registrations return the same id if and only if their snapshots
\* are equal (the same string, or the same set of (path, contents) pairs,
\* whatever the key order submitted); hence an id once returned for a
\* snapshot is returned for it ever after.
C1_DedupByCanonicalForm ==
    \A p \in issued : \A q \in issued : (p[2] = q[2]) <=> (p[1] = q[1])

\* The same two-file snapshot was registered under both key orders, and some
\* other snapshot too.
C1_Witness ==
    /\ \E p \in issued : \E q \in issued :
          /\ p[1] = q[1]
          /\ Len(p[3]) = 2
          /\ p[3] # q[3]
    /\ \E p \in issued : \E q \in issued : p[1] # q[1] /\ ~p[1].isStr /\ ~q[1].isStr

\* C2: the empty snapshot has id 0 and the k-th distinct non-empty snapshot
\* registered has id k, so the ids in use are exactly 0..CODE_ID-1.
C2_SequentialIds ==
    /\ code_files[StrKey(<<>>)] = 0
    /\ \A p \in issued : p[1] = EmptyRep => p[2] = 0
    /\ CODE_ID = Len(firstSeen) + 1
    /\ \A k \in 1..Len(firstSeen) :
          /\ \E p \in issued : p[1] = firstSeen[k]
          /\ \A p \in issued : p[1] = firstSeen[k] => p[2] = k
    /\ Range(code_files) = 0..(CODE_ID - 1)
    /\ Cardinality(DOMAIN code_files) = CODE_ID

C2_Witness ==
    /\ Len(firstSeen) = MaxSnapshots
    /\ \E p \in issued : p[1] = EmptyRep
    /\ \E p \in issued : p[2] = MaxSnapshots /\ ~p[1].isStr

\* The files the claim expects under CodeStates/<id> for one snapshot.
ExpectedFiles(key) ==
    IF key.isStr THEN ("__main__.py" :> key.str)
    ELSE [p \in {key.files[i][1] : i \in 1..Len(key.files)} |->
             (CHOOSE f \in Range(key.files) : f[1] = p)[2]]

\* C10: after export_code_states, CodeStates holds exactly one directory per
\* id of the store, named by the decimal id and holding that snapshot's
\* files, whatever it held before.
C10_ExportReplaces ==
    last.op = "export_code_states" =>
        /\ code_states_fs.exists
        /\ DOMAIN code_states_fs.dirs = {Decimal(code_files[k]) : k \in DOMAIN code_files}
        /\ \A k \in DOMAIN code_files :
              code_states_fs.dirs[Decimal(code_files[k])] = ExpectedFiles(k)

\* An export over an earlier run's output, of a store holding a string
\* snapshot and a two-file one.
C10_Witness ==
    /\ last.op = "export_code_states"
    /\ <<"7">> \in last.replaced
    /\ \E k \in DOMAIN code_files : ~k.isStr /\ Len(k.files) = 2
    /\ StrKey(Print1) \in DOMAIN code_files

\* Stale files under an id this run uses were there before the export.
C10_WitnessSameId ==
    /\ last.op = "export_code_states"
    /\ <<"1">> \in last.replaced
    /\ CODE_ID > 1

(***************************************************************************)
(* Events: Event.__init__, log_event, finalize_table, set_ordering.        *)
(***************************************************************************)
\* What csv.writer writes for a value: a name, a text, or str() of an
\* optional int (None is written as the empty string).
NameCell(s) == [name |-> s, text |-> <<>>]
TextCell(t) == [name |-> "", text |-> t]
IntCell(v) == [name |-> "", text |-> IF IsUnset(v) THEN <<>> ELSE Decimal(v[1])]
EmptyCell == TextCell(<<>>)

\* Event.__init__ with Event._track_new_event: the arguments of log_event
\* and the class counter give the new object.
NewEvent(a, id) ==
    [EventID |-> id,
     Order |-> Unset,
     ClientTimestamp |-> a.ClientTimestamp,
     ServerTimestamp |-> a.ServerTimestamp,
     SubjectID |-> a.SubjectID,
     AssignmentID |-> a.AssignmentID,
     EventType |-> a.EventType,
     CodeStateID |-> a.CodeStateID,
     Score |-> a.Score,
     ToolInstances |-> a.ToolInstances,
     optional |-> a.kwargs]

LogEvent(a) ==
    /\ Len(main_table) < MaxEvents
    /\ main_table' = Append(main_table, NewEvent(a, MAX_EVENT_ID))
    /\ MAX_EVENT_ID' = MAX_EVENT_ID + 1
    /\ last' = Call("log_event")
    /\ UNCHANGED <<storeVars, diskVars, pre_table, scen>>

Identifier(event) == <<event.SubjectID, event.AssignmentID>>

\* No look-ahead: first_code_states left as it was before the first loop.
NoFirstCodeStates(table, first) == first

RECURSIVE FirstCodeStates(_, _)
\* The first loop of finalize_table: per identifier, the first CodeStateID
\* that is not None.
FirstCodeStates(table, first) ==
    IF table = <<>> THEN first
    ELSE LET event == Head(table)
             identifier == Identifier(event)
         IN  IF identifier \in DOMAIN first \/ IsUnset(event.CodeStateID)
                THEN FirstCodeStates(Tail(table), first)
                ELSE FirstCodeStates(Tail(table),
                                     (identifier :> event.CodeStateID[1]) @@ first)

\* set_ordering that renumbers the event by its position in the sorted
\* table.
set_ordering_renumbering(event, Order, CodeStateID) ==
    [event EXCEPT !.EventID = Order,
                  !.Order = Some(Order),
                  !.CodeStateID = IF IsUnset(CodeStateID) THEN @ ELSE CodeStateID]

set_ordering(event, Order, CodeStateID) ==
    [event EXCEPT !.Order = Some(Order),
                  !.CodeStateID = IF IsUnset(CodeStateID) THEN @ ELSE CodeStateID]

\* A running state that is never read back: the lookup without the carried value.
SeedOnly(code_states, first, identifier) == first[identifier]

\* code_states.get(identifier, first_code_states[identifier])
CurrentCodeState(code_states, first, identifier) ==
    IF identifier \in DOMAIN code_states THEN code_states[identifier]
    ELSE first[identifier]

\* score_state.get(identifier, 0)
CurrentScoreState(score_state, identifier) ==
    IF identifier \in DOMAIN score_state THEN score_state[identifier] ELSE 0

RECURSIVE Backfill(_, _, _, _, _)
\* The second loop of finalize_table over the events still to visit.
Backfill(table, order, first, code_states, score_state) ==
    IF table = <<>> THEN <<>>
    ELSE LET event == Head(table)
             identifier == Identifier(event)
             first1 == IF identifier \in DOMAIN first THEN first
                       ELSE (identifier :> 0) @@ first
             seen_code == CurrentCodeState(code_states, first1, identifier)
             seen_score == CurrentScoreState(score_state, identifier)
             current_score_state == IF IsUnset(event.Score) THEN seen_score
                                    ELSE event.Score[1]
             current_code_state == IF IsUnset(event.CodeStateID) THEN seen_code
                                   ELSE event.CodeStateID[1]
             scored == [event EXCEPT !.Score = Some(current_score_state)]
             done == IF IsUnset(event.CodeStateID)
                        THEN set_ordering(scored, order, Some(current_code_state))
                        ELSE set_ordering(scored, order, Unset)
         IN  <<done>> \o Backfill(Tail(table), order + 1, first1,
                                  (identifier :> current_code_state) @@ code_states,
                                  (identifier :> current_score_state) @@ score_state)

finalize_table(table) ==
    LET sorted == SortBy("get_order", table)
    IN  Backfill(sorted, 0, FirstCodeStates(sorted, EmptyMap), EmptyMap, EmptyMap)

FinalizeTable ==
    /\ main_table' = finalize_table(main_table)
    /\ pre_table' = main_table
    /\ last' = Call("finalize_table")
    /\ UNCHANGED <<storeVars, MAX_EVENT_ID, diskVars, scen>>

(***************************************************************************)
(* The table on its own: events logged in any order, then finalized.       *)
(***************************************************************************)
\* str(datetime.fromtimestamp(int(t)).isoformat()) for the epochs of the
\* model, in UTC: the date and hour are the same for all of them, so the
\* "MM:SS" tail stands for the string.
blockpy_timestamp_to_iso8601(t) ==
    <<Digit((t \div 60) \div 10), Digit((t \div 60) % 10), ":",
      Digit((t % 60) \div 10), Digit((t % 60) % 10)>>

TableArgs ==
    {[ClientTimestamp |-> blockpy_timestamp_to_iso8601(tu[1]),
      ServerTimestamp |-> <<"0", "0", ":", "0", "0">>,
      SubjectID |-> tu[2],
      AssignmentID |-> "a1",
      EventType |-> "X-View.Step",
      CodeStateID |-> cs[1],
      Score |-> cs[2],
      ToolInstances |-> "BPY4",
      kwargs |-> EmptyMap] :
        tu \in {<<59, "u1">>, <<60, "u1">>, <<60, "u2">>},
        cs \in {<<Unset, Unset>>, <<Some(1), Unset>>, <<Unset, Some(1)>>,
                 <<Some(2), Some(2)>>}}

InitTable == InitObject /\ code_states_fs = NoDirectory

NextTable ==
    \/ \E a \in TableArgs : LogEvent(a)
    \/ FinalizeTable

SpecTable == InitTable /\ [][NextTable]_vars

Finalized == last.op = "finalize_table"

\* The event of pre_table that became event e.
Before(e) == CHOOSE b \in Range(pre_table) : b.EventID = e.EventID

\* C3: after finalize_table on N events the Order values are 0..N-1 in
\* table order, ClientTimestamp ascends along them, and events of equal
\* ClientTimestamp stay in the order in which they were logged.
C3_OrderDenseAndMonotone ==
    Finalized =>
        /\ Len(main_table) = Len(pre_table)
        /\ {e.EventID : e \in Range(main_table)} = {e.EventID : e \in Range(pre_table)}
        /\ \A i \in 1..Len(main_table) : main_table[i].Order = Some(i - 1)
        /\ \A i \in 1..Len(main_table) : \A j \in 1..Len(main_table) :
              i < j =>
                /\ ~TextLess(main_table[j].ClientTimestamp, main_table[i].ClientTimestamp)
                /\ main_table[i].ClientTimestamp = main_table[j].ClientTimestamp
                      => main_table[i].EventID < main_table[j].EventID

\* Three events logged late-first with a tie, then finalized.
C3_Witness ==
    /\ Finalized
    /\ Len(main_table) = 3
    /\ main_table[1].EventID = 2
    /\ main_table[2].ClientTimestamp = main_table[3].ClientTimestamp

\* C4: of two events of one (subject, assignment) pair with consecutive
\* Order values, the second, if its CodeStateID was unset before the
\* finalization, has the first's finalized CodeStateID; and likewise Score.
C4_CarryForward ==
    Finalized =>
        \A k \in 1..(Len(main_table) - 1) :
            LET E1 == main_table[k]
                E2 == main_table[k + 1]
            IN  Identifier(E1) = Identifier(E2) =>
                  /\ IsUnset(Before(E2).CodeStateID) => E2.CodeStateID = E1.CodeStateID
                  /\ IsUnset(Before(E2).Score) => E2.Score = E1.Score

\* The pair's first explicit snapshot is 1, E1 sets 2 and a score, and E2,
\* which set neither, follows E1.
C4_Witness ==
    /\ Finalized
    /\ Len(main_table) = 3
    /\ Identifier(main_table[1]) = Identifier(main_table[3])
    /\ Identifier(main_table[2]) = Identifier(main_table[3])
    /\ Before(main_table[1]).CodeStateID = Some(1)
    /\ Before(main_table[2]).CodeStateID = Some(2)
    /\ Before(main_table[2]).Score = Some(2)
    /\ IsUnset(Before(main_table[3]).CodeStateID)
    /\ IsUnset(Before(main_table[3]).Score)
    /\ main_table[3].CodeStateID = Some(2)
    /\ main_table[3].Score = Some(2)

\* The positions of the finalized table that hold an event of the pair of
\* position k whose CodeStateID was set when finalize_table began.
ExplicitOfPair(k) ==
    {j \in 1..Len(main_table) :
        /\ Identifier(main_table[j]) = Identifier(main_table[k])
        /\ ~IsUnset(Before(main_table[j]).CodeStateID)}

Highest(S) == CHOOSE x \in S : \A y \in S : y <= x
Lowest(S) == CHOOSE x \in S : \A y \in S : x <= y

\* C13: finalize_table leaves an explicit CodeStateID alone; an event whose
\* CodeStateID was unset gets that of the nearest earlier event of its
\* (SubjectID, AssignmentID) pair that set one, else the first one set by
\* the pair anywhere in the sorted table, else 0.
C13_SnapshotSeeding ==
    Finalized =>
        \A k \in 1..Len(main_table) :
            LET explicit == ExplicitOfPair(k)
                earlier == {j \in explicit : j < k}
            IN  main_table[k].CodeStateID =
                    IF k \in explicit THEN Before(main_table[k]).CodeStateID
                    ELSE IF earlier # {}
                        THEN Before(main_table[Highest(earlier)]).CodeStateID
                    ELSE IF explicit # {}
                        THEN Before(main_table[Lowest(explicit)]).CodeStateID
                    ELSE Some(0)

\* An unset event ahead of its pair's first explicit snapshot (2), and an
\* event of a pair that never sets one.
C13_Witness ==
    /\ Finalized
    /\ Len(main_table) = 3
    /\ IsUnset(Before(main_table[1]).CodeStateID)
    /\ ExplicitOfPair(1) = {2}
    /\ main_table[1].CodeStateID = Some(2)
    /\ ExplicitOfPair(3) = {}
    /\ main_table[3].CodeStateID = Some(0)

(***************************************************************************)
(* export_main_table, Event.finalize, Event.distill_parameters,            *)
(* export_metadata, export.                                                *)
(***************************************************************************)
RECURSIVE SetToSeq(_)
\* The keys of a dict as a list (the sorts below do not depend on it).
SetToSeq(S) ==
    IF S = {} THEN <<>>
    ELSE LET x == CHOOSE x \in S : TRUE IN <<x>> \o SetToSeq(S \ {x})

\* The columns of ARBITRARY_COLUMN_ORDER that Event.__init__ sets as
\* attributes of the object (hasattr is true of these and no other).
EventAttributes ==
    {"EventID", "Order", "SubjectID", "AssignmentID", "EventType", "CodeStateID",
     "ClientTimestamp", "Score", "ServerTimestamp", "ToolInstances"}

\* getattr(event, COLUMN) as the csv writer writes it.
AttributeCell(event, COLUMN) ==
    CASE COLUMN = "EventID" -> IntCell(Some(event.EventID))
      [] COLUMN = "Order" -> IntCell(event.Order)
      [] COLUMN = "SubjectID" -> NameCell(event.SubjectID)
      [] COLUMN = "AssignmentID" -> NameCell(event.AssignmentID)
      [] COLUMN = "EventType" -> NameCell(event.EventType)
      [] COLUMN = "CodeStateID" -> IntCell(event.CodeStateID)
      [] COLUMN = "ClientTimestamp" -> TextCell(event.ClientTimestamp)
      [] COLUMN = "Score" -> IntCell(event.Score)
      [] COLUMN = "ServerTimestamp" -> TextCell(event.ServerTimestamp)
      [] COLUMN = "ToolInstances" -> NameCell(event.ToolInstances)

distill_parameters(events) ==
    [p \in UNION {DOMAIN events[i].optional : i \in 1..Len(events)} |-> EmptyCell]

\* [value for parameter, value in sorted_parameters]
OrderedValues(parameter_values, sorted_parameters) ==
    [i \in 1..Len(sorted_parameters) |-> parameter_values[sorted_parameters[i]]]

\* Event.finalize(default_parameter_values): the row of one event.
finalize(event, default_parameter_values) ==
    LET parameter_values == event.optional @@ default_parameter_values
        required_columns ==
            [COLUMN \in {c \in Range(ARBITRARY_COLUMN_ORDER) : c \in EventAttributes}
                |-> AttributeCell(event, COLUMN)]
        updated == required_columns @@ parameter_values
    IN  OrderedValues(updated, SortBy("get_parameter_order", SetToSeq(DOMAIN updated)))

main_table_header == ARBITRARY_COLUMN_ORDER

\* header.sort(key=Event.get_parameter_order)
SortedHeader == SortBy("get_parameter_order", main_table_header)

WrittenMainTable(table) ==
    LET optionals == distill_parameters(table)
    IN  [exists |-> TRUE,
         header |-> SortedHeader,
         rows |-> [i \in 1..Len(table) |-> finalize(table[i], optionals)]]

ExportMainTable ==
    /\ main_table' = finalize_table(main_table)
    /\ pre_table' = main_table
    /\ main_table_csv' = WrittenMainTable(main_table')
    /\ last' = Call("export_main_table")
    /\ UNCHANGED <<storeVars, MAX_EVENT_ID, code_states_fs, metadata_csv, scen>>

VERSION == 3

WrittenMetadata ==
    <<<<NameCell("Property"), NameCell("Value")>>,
      <<NameCell("Version"), IntCell(Some(VERSION))>>,
      <<NameCell("AreEventsOrdered"), NameCell("true")>>,
      <<NameCell("IsEventOrderingConsistent"), NameCell("true")>>,
      <<NameCell("CodeStateRepresentation"), NameCell("Directory")>>>>

\* export: the metadata, the main table, the code states.
Export ==
    /\ metadata_csv' = WrittenMetadata
    /\ main_table' = finalize_table(main_table)
    /\ pre_table' = main_table
    /\ main_table_csv' = WrittenMainTable(main_table')
    /\ code_states_fs' = ExportedCodeStates(code_states_fs, code_files)
    /\ last' = [Call("export") EXCEPT !.replaced = DOMAIN code_states_fs.dirs]
    /\ UNCHANGED <<storeVars, MAX_EVENT_ID, scen>>

(***************************************************************************)
(* The main table on its own: events with optional columns, then exports.  *)
(***************************************************************************)
OptionalColumns ==
    {EmptyMap,
     ("EditType" :> NameCell("GenericEdit")),
     ("ParentEventID" :> TextCell(<<"7">>)),
     ("X-Note" :> NameCell("n")) @@ ("ParentEventID" :> TextCell(<<"8">>)),
     ("EditType" :> NameCell("Reset")) @@ ("X-Note" :> NameCell("m"))}

MainArgs ==
    {[ClientTimestamp |-> blockpy_timestamp_to_iso8601(t),
      ServerTimestamp |-> <<"0", "0", ":", "0", "0">>,
      SubjectID |-> "u1",
      AssignmentID |-> "a1",
      EventType |-> "File.Edit",
      CodeStateID |-> Unset,
      Score |-> Unset,
      ToolInstances |-> "BPY4",
      kwargs |-> k] : t \in {59, 60}, k \in OptionalColumns}

NextMain ==
    \/ \E a \in MainArgs : LogEvent(a)
    \/ ExportMainTable

SpecMain == InitTable /\ [][NextMain]_vars

MainTableWritten == last.op \in {"export_main_table", "export"}

\* The optional columns observed that are not required columns.
AdditionalColumns ==
    UNION {DOMAIN main_table[i].optional : i \in 1..Len(main_table)}
        \ Range(ARBITRARY_COLUMN_ORDER)

\* The cell the claim expects for one event under one column.
ExpectedCell(event, column) ==
    IF column \in EventAttributes THEN AttributeCell(event, column)
    ELSE IF column \in DOMAIN event.optional THEN event.optional[column]
    ELSE EmptyCell

\* C9: the header is the 16 required columns in their order, then every
\* additional optional column observed (alphabetical); every row has one
\* cell per header column, in that order, empty where the event set none.
C9_ColumnLayout ==
    MainTableWritten =>
        /\ Len(main_table_csv.header) = Len(ARBITRARY_COLUMN_ORDER) + Cardinality(AdditionalColumns)
        /\ SubSeq(main_table_csv.header, 1, Len(ARBITRARY_COLUMN_ORDER)) = ARBITRARY_COLUMN_ORDER
        /\ \A c \in AdditionalColumns : c \in Range(main_table_csv.header)
        /\ \A i \in 1..Len(main_table_csv.header) : \A j \in 1..Len(main_table_csv.header) :
              (Len(ARBITRARY_COLUMN_ORDER) < i /\ i < j)
                  => StrLess(main_table_csv.header[i], main_table_csv.header[j])
        /\ Len(main_table_csv.rows) = Len(main_table)
        /\ \A r \in 1..Len(main_table_csv.rows) :
              /\ Len(main_table_csv.rows[r]) = Len(main_table_csv.header)
              /\ \A c \in 1..Len(main_table_csv.header) :
                    main_table_csv.rows[r][c] = ExpectedCell(main_table[r], main_table_csv.header[c])

\* The part of C9 about the rows alone, for a table none of whose events
\* carries a column outside the 16 required ones.
C9_RowsMatchRequiredHeader ==
    (MainTableWritten /\ AdditionalColumns = {}) =>
        \A r \in 1..Len(main_table_csv.rows) :
            Len(main_table_csv.rows[r]) = Len(main_table_csv.header)

\* The part of C9 about the header alone.
C9_HeaderNamesEveryColumn ==
    MainTableWritten => \A c \in AdditionalColumns : c \in Range(main_table_csv.header)

(***************************************************************************)
(* converters/blockpy_to_progsnap2.py: the classifier and the ingestion    *)
(* of one raw record.                                                      *)
(***************************************************************************)
UpperCase == <<"A", "B", "C", "D", "E", "F", "G", "H", "I", "J", "K", "L", "M", "N", "O", "P", "Q", "R", "S", "T", "U", "V", "W", "X", "Y", "Z">>
LowerCase == <<"a", "b", "c", "d", "e", "f", "g", "h", "i", "j", "k", "l", "m", "n", "o", "p", "q", "r", "s", "t", "u", "v", "w", "x", "y", "z">>
LowerOf == [c \in Range(UpperCase) |-> LowerCase[CHOOSE i \in 1..Len(UpperCase) : UpperCase[i] = c]]

\* str.lower
lower(t) == [i \in 1..Len(t) |-> IF t[i] \in DOMAIN LowerOf THEN LowerOf[t[i]] ELSE t[i]]

\* str.startswith
startswith(t, prefix) == Len(t) >= Len(prefix) /\ SubSeq(t, 1, Len(prefix)) = prefix

\* action+"|"+body
Message(action, body) == TextCell(action \o <<"|">> \o body)

\* An editor action nobody listed ends like run: the editor branch as it
\* would be if it returned None where the code runs on to the raise.
ClassifyEditorOrDrop(action) ==
    CASE action = <<"l", "o", "a", "d">> -> ReturnsStr("Session.Start")
      [] action = <<"r", "e", "s", "e", "t">> -> ReturnsDict("File.Edit", Unset, ("EditType" :> NameCell("Reset")))
      [] action = <<"b", "l", "o", "c", "k", "s">> -> ReturnsStr("X-View.Blocks")
      [] action = <<"t", "e", "x", "t">> -> ReturnsStr("X-View.Text")
      [] action = <<"s", "p", "l", "i", "t">> -> ReturnsStr("X-View.Split")
      [] action = <<"i", "n", "s", "t", "r", "u", "c", "t", "o", "r">> -> ReturnsStr("X-View.Settings")
      [] action = <<"h", "i", "s", "t", "o", "r", "y">> -> ReturnsStr("X-View.History")
      [] action = <<"t", "r", "a", "c", "e">> -> ReturnsStr("X-View.Trace")
      [] action = <<"u", "p", "l", "o", "a", "d">> -> ReturnsStr("X-File.Upload")
      [] action = <<"d", "o", "w", "n", "l", "o", "a", "d">> -> ReturnsStr("X-File.Download")
      [] action = <<"c", "h", "a", "n", "g", "e", "I", "P">> -> ReturnsStr("X-Session.Move")
      [] action = <<"i", "m", "p", "o", "r", "t">> -> ReturnsStr("X-Dataset.Import")
      [] action \in {<<"r", "u", "n">>, <<"o", "n", "_", "r", "u", "n">>} -> ReturnsNone
      [] OTHER -> ReturnsNone

\* The branch elif event == 'editor'.  An action none of its tests matches
\* leaves the if statement and reaches the raise that ends the function.
ClassifyEditor(action) ==
    CASE action = <<"l", "o", "a", "d">> -> ReturnsStr("Session.Start")
      [] action = <<"r", "e", "s", "e", "t">> -> ReturnsDict("File.Edit", Unset, ("EditType" :> NameCell("Reset")))
      [] action = <<"b", "l", "o", "c", "k", "s">> -> ReturnsStr("X-View.Blocks")
      [] action = <<"t", "e", "x", "t">> -> ReturnsStr("X-View.Text")
      [] action = <<"s", "p", "l", "i", "t">> -> ReturnsStr("X-View.Split")
      [] action = <<"i", "n", "s", "t", "r", "u", "c", "t", "o", "r">> -> ReturnsStr("X-View.Settings")
      [] action = <<"h", "i", "s", "t", "o", "r", "y">> -> ReturnsStr("X-View.History")
      [] action = <<"t", "r", "a", "c", "e">> -> ReturnsStr("X-View.Trace")
      [] action = <<"u", "p", "l", "o", "a", "d">> -> ReturnsStr("X-File.Upload")
      [] action = <<"d", "o", "w", "n", "l", "o", "a", "d">> -> ReturnsStr("X-File.Download")
      [] action = <<"c", "h", "a", "n", "g", "e", "I", "P">> -> ReturnsStr("X-Session.Move")
      [] action = <<"i", "m", "p", "o", "r", "t">> -> ReturnsStr("X-Dataset.Import")
      [] action \in {<<"r", "u", "n">>, <<"o", "n", "_", "r", "u", "n">>} -> ReturnsNone
      [] OTHER -> Raised

\* The branch elif event == 'feedback'.
ClassifyFeedback(action, body) ==
    IF startswith(lower(action), <<"a", "n", "a", "l", "y", "z", "e", "r", "|">>)
       THEN ReturnsDict("Intervention", Unset,
                        ("InterventionType" :> NameCell("Analyzer"))
                        @@ ("InterventionMessage" :> Message(action, body)))
    ELSE IF lower(action) = <<"e", "d", "i", "t", "o", "r", " ", "e", "r", "r", "o", "r">> \/ startswith(lower(action), <<"s", "y", "n", "t", "a", "x", "|">>)
       THEN ReturnsDict("Compile.Error", Unset,
                        ("CompileMessageType" :> Message(action, body)))
    ELSE IF startswith(lower(action), <<"c", "o", "m", "p", "l", "e", "t", "e", "|">>)
       THEN ReturnsDict("Run.Program", Some(1), ("ExecutionResult" :> NameCell("Success")))
    ELSE IF startswith(lower(action), <<"r", "u", "n", "t", "i", "m", "e", "|">>) \/ lower(action) = <<"r", "u", "n", "t", "i", "m", "e">>
       THEN ReturnsDict("Run.Program", Unset,
                        ("ExecutionResult" :> NameCell("Error"))
                        @@ ("ProgramErrorOutput" :> Message(action, body)))
    ELSE IF lower(action) = <<"i", "n", "t", "e", "r", "n", "a", "l", " ", "e", "r", "r", "o", "r">>
       THEN ReturnsDict("Run.Program", Unset,
                        ("ExecutionResult" :> NameCell("SystemError"))
                        @@ ("ProgramErrorOutput" :> Message(action, body)))
    ELSE ReturnsDict("Intervention", Unset,
                     ("InterventionType" :> NameCell("Feedback"))
                     @@ ("InterventionMessage" :> Message(action, body)))

\* The engine trigger reported as a run: the classifier with the branch
\* the source has commented out put back.
map_engine_as_run(event, action, body) ==
    IF event = "code" /\ action = <<"s", "e", "t">>
       THEN ReturnsDict("File.Edit", Unset, ("EditType" :> NameCell("GenericEdit")))
    ELSE IF event = "editor" THEN ClassifyEditor(action)
    ELSE IF event = "trace_step" THEN ReturnsStr("X-View.Step")
    ELSE IF event = "feedback" THEN ClassifyFeedback(action, body)
    ELSE IF event = "engine" THEN ReturnsStr("Run.Program")
    ELSE IF event \in {"instructor", "trace", "worked_examples"} THEN ReturnsNone
    ELSE Raised

map_blockpy_event_to_progsnap(event, action, body) ==
    IF event = "code" /\ action = <<"s", "e", "t">>
       THEN ReturnsDict("File.Edit", Unset, ("EditType" :> NameCell("GenericEdit")))
    ELSE IF event = "editor" THEN ClassifyEditor(action)
    ELSE IF event = "trace_step" THEN ReturnsStr("X-View.Step")
    ELSE IF event = "feedback" THEN ClassifyFeedback(action, body)
    ELSE IF event = "engine" THEN ReturnsNone
    ELSE IF event = "instructor" THEN ReturnsNone
    ELSE IF event = "trace" THEN ReturnsNone
    ELSE IF event = "worked_examples" THEN ReturnsNone
    ELSE Raised

(***************************************************************************)
(* The classifier on its own: one (category, action, body) and its result. *)
(***************************************************************************)
Categories ==
    {"code", "editor", "trace_step", "feedback", "engine", "instructor", "trace",
     "worked_examples", "", "Editor", "run", "session", "file"}

EditorActions ==
    {<<"l", "o", "a", "d">>,
     <<"r", "e", "s", "e", "t">>,
     <<"b", "l", "o", "c", "k", "s">>,
     <<"t", "e", "x", "t">>,
     <<"s", "p", "l", "i", "t">>,
     <<"i", "n", "s", "t", "r", "u", "c", "t", "o", "r">>,
     <<"h", "i", "s", "t", "o", "r", "y">>,
     <<"t", "r", "a", "c", "e">>,
     <<"u", "p", "l", "o", "a", "d">>,
     <<"d", "o", "w", "n", "l", "o", "a", "d">>,
     <<"c", "h", "a", "n", "g", "e", "I", "P">>,
     <<"i", "m", "p", "o", "r", "t">>,
     <<"r", "u", "n">>,
     <<"o", "n", "_", "r", "u", "n">>}

FeedbackActions ==
    {<<"A", "n", "a", "l", "y", "z", "e", "r", "|", "x">>,
     <<"e", "d", "i", "t", "o", "r", " ", "e", "r", "r", "o", "r">>,
     <<"S", "y", "n", "t", "a", "x", "|", "x">>,
     <<"C", "o", "m", "p", "l", "e", "t", "e", "|">>,
     <<"r", "u", "n", "t", "i", "m", "e">>,
     <<"R", "u", "n", "t", "i", "m", "e", "|", "x">>,
     <<"I", "n", "t", "e", "r", "n", "a", "l", " ", "E", "r", "r", "o", "r">>,
     <<"n", "o", " ", "e", "r", "r", "o", "r", "s">>}

Actions ==
    EditorActions \cup FeedbackActions
    \cup {<<"s", "e", "t">>,
          <<"s", "a", "v", "e">>,
          <<"L", "o", "a", "d">>,
          <<"l", "o", "a", "d", "s">>,
          <<>>,
          <<"o", "n", "_", "s", "t", "e", "p">>}

ClassifyInputs == {Record(NullTimestamp, e, a, <<"b">>) : e \in Categories, a \in Actions}

InitClassify ==
    /\ InitObject
    /\ code_states_fs = NoDirectory

\* A caller picks the triple to classify.
ChooseInput(r) ==
    /\ last.op # "input"
    /\ last' = [Call("input") EXCEPT !.record = r]
    /\ UNCHANGED <<storeVars, main_table, MAX_EVENT_ID, diskVars, pre_table, scen>>

MapBlockpyEvent ==
    /\ last.op = "input"
    /\ LET r == last.record
           result == map_blockpy_event_to_progsnap(r.event, r.action, r.body)
       IN  last' = [Call("map_blockpy_event_to_progsnap") EXCEPT
                       !.record = r,
                       !.result = result,
                       !.outcome = IF result.kind = "raise" THEN "UnclassifiedEventType"
                                   ELSE "returned"]
    /\ UNCHANGED <<storeVars, main_table, MAX_EVENT_ID, diskVars, pre_table, scen>>

NextClassify ==
    \/ \E r \in ClassifyInputs : ChooseInput(r)
    \/ MapBlockpyEvent

SpecClassify == InitClassify /\ [][NextClassify]_vars

\* The pairs the mapping names: code/set, the fourteen editor actions, and
\* the categories it handles whatever the action (trace_step, feedback with
\* its sub-cases and its generic feedback message, engine, instructor,
\* trace, worked_examples).
Enumerated(event, action) ==
    \/ event = "code" /\ action = <<"s", "e", "t">>
    \/ event = "editor" /\ action \in EditorActions
    \/ event \in {"trace_step", "feedback", "engine", "instructor", "trace", "worked_examples"}

Classified == last.op = "map_blockpy_event_to_progsnap"

\* C5: map_blockpy_event_to_progsnap raises UnclassifiedEventType for every
\* (category, action) pair the mapping does not name; none of them gets an
\* event or is dropped.
C5_UnknownPairRaises ==
    (Classified /\ ~Enumerated(last.record.event, last.record.action)) =>
        /\ last.outcome = "UnclassifiedEventType"
        /\ last.result.kind = "raise"

\* An editor action outside the list was classified, and so was an action
\* of code other than set, and a category nobody names.
C5_Witness ==
    /\ Classified
    /\ last.outcome = "UnclassifiedEventType"
    /\ last.record.event = "editor"
    /\ last.record.action = <<"s", "a", "v", "e">>

C5_WitnessCategory ==
    /\ Classified
    /\ last.outcome = "UnclassifiedEventType"
    /\ last.record.event = "session"

(***************************************************************************)
(* log_blockpy_event: one raw record into the ProgSnap2 instance.          *)
(***************************************************************************)
Digits == {CharOrder[i] : i \in 1..10}

\* Whether int(timestamp) returns (it raises ValueError otherwise).
CanInt(ts) ==
    \/ ts.kind = "int"
    \/ ts.kind = "str" /\ ts.text # <<>> /\ \A i \in 1..Len(ts.text) : ts.text[i] \in Digits

RECURSIVE IntOfText(_)
IntOfText(t) ==
    IF t = <<>> THEN 0 ELSE 10 * IntOfText(SubSeq(t, 1, Len(t) - 1)) + (CharRank(t[Len(t)]) - 1)

\* int(timestamp)
int(ts) == IF ts.kind = "int" THEN ts.val ELSE IntOfText(ts.text)

\* not record['timestamp']
Falsy(ts) ==
    \/ ts.kind = "null"
    \/ ts.kind = "str" /\ ts.text = <<>>
    \/ ts.kind = "int" /\ ts.val = 0

\* A test for null alone: SkipsRecord without the string test.
SkipsOnlyFalsy(record) == Falsy(record.timestamp)

\* if not record['timestamp'] or record['timestamp'] == 'None'
SkipsRecord(record) ==
    \/ Falsy(record.timestamp)
    \/ record.timestamp.kind = "str" /\ record.timestamp.text = <<"N", "o", "n", "e">>

RECURSIVE chomp_iso_time_decimal(_)
\* a_time[:a_time.find('.')] when there is a '.', else a_time.
chomp_iso_time_decimal(a_time) ==
    IF a_time = <<>> \/ Head(a_time) = "." THEN <<>>
    ELSE <<Head(a_time)>> \o chomp_iso_time_decimal(Tail(a_time))

BLOCKPY_INSTANCE == "BPY4"

\* def log_code_state(self, submission, zipped)
LogCodeStateParameters == <<"submission", "zipped">>

\* progsnap.log_code_state(body): the arguments of the call.
LogCodeStateArguments(body) == <<body>>

\* Python binds a call only when every parameter without a default gets an
\* argument; it raises TypeError otherwise.
Binds(arguments, parameters) == Len(arguments) = Len(parameters)

\* The keyword arguments log_blockpy_event hands to log_event.
BlockpyEventArgs(record, result, CodeStateID) ==
    [ClientTimestamp |-> blockpy_timestamp_to_iso8601(int(record.timestamp)),
     ServerTimestamp |-> chomp_iso_time_decimal(record.date_created),
     SubjectID |-> record.user_id,
     AssignmentID |-> record.assignment_id,
     EventType |-> result.EventType,
     CodeStateID |-> CodeStateID,
     Score |-> result.Score,
     ToolInstances |-> BLOCKPY_INSTANCE,
     kwargs |-> result.optional]

\* The records of the round trip: (a) code/set print(1) at T1, (b) a
\* complete| feedback at T2, (c) code/set print(2) at T3.
ScenarioRecords ==
    <<Record(IntTimestamp(59), "code", <<"s", "e", "t">>, Print1),
      Record(StrTimestamp(<<"6", "0">>), "feedback", <<"C", "o", "m", "p", "l", "e", "t", "e", "|">>, <<>>),
      Record(IntTimestamp(119), "code", <<"s", "e", "t">>, Print2)>>

\* How far the calls so far follow ScenarioRecords; past its length once
\* any other call was made.
Follows(n, record) ==
    IF n < Len(ScenarioRecords) /\ record = ScenarioRecords[n + 1] THEN n + 1
    ELSE Len(ScenarioRecords) + 1

\* The call ends (a return or an exception) before anything was changed.
Ends(record, result, outcome) ==
    /\ last' = [Call("log_blockpy_event") EXCEPT
                    !.record = record, !.result = result, !.outcome = outcome]
    /\ UNCHANGED <<storeVars, main_table, MAX_EVENT_ID>>

Appends(record, result, CodeStateID) ==
    /\ main_table' = Append(main_table,
                            NewEvent(BlockpyEventArgs(record, result, CodeStateID), MAX_EVENT_ID))
    /\ MAX_EVENT_ID' = MAX_EVENT_ID + 1
    /\ last' = [Call("log_blockpy_event") EXCEPT !.record = record, !.result = result]

LogBlockpyEvent(record) ==
    /\ Len(main_table) < MaxEvents
    /\ scen' = Follows(scen, record)
    /\ UNCHANGED <<diskVars, pre_table>>
    /\ IF SkipsRecord(record) THEN Ends(record, ReturnsNone, "returned")
       ELSE IF ~CanInt(record.timestamp) THEN Ends(record, ReturnsNone, "ValueError")
       ELSE LET result == map_blockpy_event_to_progsnap(record.event, record.action,
                                                        record.body)
                arguments == LogCodeStateArguments(record.body)
            IN  IF result.kind = "raise" THEN Ends(record, result, "UnclassifiedEventType")
                ELSE IF result.kind = "None" THEN Ends(record, result, "returned")
                ELSE IF result.EventType # "File.Edit"
                   THEN Appends(record, result, Unset) /\ UNCHANGED storeVars
                ELSE IF ~Binds(arguments, LogCodeStateParameters)
                   THEN Ends(record, result, "TypeError")
                ELSE LET code == CodeOf(StrSubmission(arguments[1]), arguments[2])
                     IN  /\ CODE_ID <= MaxSnapshots
                         /\ Register(code, RepOfKey(code), <<>>)
                         /\ Appends(record, result, Some(CodeStateIDOf(code)))

(***************************************************************************)
(* The BlockPy converter: records ingested one by one, then exported.      *)
(***************************************************************************)
Timestamps == {NullTimestamp, StrTimestamp(<<"N", "o", "n", "e">>), IntTimestamp(59)}

BlockpyPairs ==
    {<<"code", <<"s", "e", "t">>>>,
     <<"editor", <<"l", "o", "a", "d">>>>,
     <<"editor", <<"r", "e", "s", "e", "t">>>>,
     <<"editor", <<"r", "u", "n">>>>,
     <<"editor", <<"o", "n", "_", "r", "u", "n">>>>,
     <<"engine", <<"o", "n", "_", "r", "u", "n">>>>,
     <<"instructor", <<"s", "a", "v", "e">>>>,
     <<"trace", <<"l", "o", "a", "d">>>>,
     <<"worked_examples", <<"l", "o", "a", "d">>>>,
     <<"feedback", <<"C", "o", "m", "p", "l", "e", "t", "e", "|">>>>,
     <<"session", <<"s", "a", "v", "e">>>>}

\* Every pair under every kind of timestamp, and the records of the round
\* trip with their later timestamps.
Records ==
    {Record(ts, ea[1], ea[2], Print1) : ts \in Timestamps, ea \in BlockpyPairs}
    \cup Range(ScenarioRecords)

NextBlockpy ==
    \/ \E r \in Records : LogBlockpyEvent(r)
    \/ Export

SpecBlockpy == InitTable /\ [][NextBlockpy]_vars

Ingested == last.op = "log_blockpy_event"

\* The pairs the classifier names as of no interest.
Uninteresting(event, action) ==
    \/ event = "editor" /\ action \in {<<"r", "u", "n">>, <<"o", "n", "_", "r", "u", "n">>}
    \/ event \in {"engine", "instructor", "trace", "worked_examples"}

\* A timestamp that is there and that int() reads.
ValidTimestamp(ts) ==
    \/ ts.kind = "int" /\ ts.val > 0
    \/ ts.kind = "str" /\ ts.text \in {<<"6", "0">>}

\* C6: a record with a valid timestamp and an uninteresting pair makes
\* log_blockpy_event return without an error, append no event and register
\* nothing.
C6_DroppedRecords ==
    [][(/\ Ingested'
        /\ ValidTimestamp(last'.record.timestamp)
        /\ Uninteresting(last'.record.event, last'.record.action))
       => (/\ last'.outcome = "returned"
           /\ main_table' = main_table
           /\ code_files' = code_files
           /\ CODE_ID' = CODE_ID)]_vars

\* An engine record with a valid timestamp was dropped from a table that
\* holds events.
C6_Witness ==
    /\ Ingested
    /\ ValidTimestamp(last.record.timestamp)
    /\ last.record.event = "engine"
    /\ last.outcome = "returned"
    /\ Len(main_table) > 0

TimestampMissing(ts) ==
    \/ ts.kind = "null"
    \/ ts.kind = "str" /\ ts.text = <<"N", "o", "n", "e">>

\* C7: a record whose timestamp is null or the string "None" makes
\* log_blockpy_event return without an error and leaves the event table
\* and the snapshot store as they were, whatever its category and action.
C7_TimestampMissingSkip ==
    [][(Ingested' /\ TimestampMissing(last'.record.timestamp))
       => (/\ last'.outcome = "returned"
           /\ main_table' = main_table
           /\ code_files' = code_files
           /\ CODE_ID' = CODE_ID)]_vars

\* A record with the timestamp "None" and a pair the classifier would
\* reject was skipped.
C7_Witness ==
    /\ Ingested
    /\ last.record.timestamp = StrTimestamp(<<"N", "o", "n", "e">>)
    /\ last.record.event = "session"
    /\ last.outcome = "returned"
    /\ Len(main_table) > 0

C7_WitnessNull ==
    /\ Ingested
    /\ last.record.timestamp = NullTimestamp
    /\ last.record.event = "code"
    /\ last.outcome = "returned"

\* C8: the three records of the round trip, ingested and exported, give
\* three rows in the order T1, T2, T3 with CodeStateID and Score 1 and 0,
\* 1 and 1, 2 and 1, and CodeStates/1 and CodeStates/2 hold print(1) and
\* print(2).
C8_RoundTrip ==
    (scen = Len(ScenarioRecords) /\ last.op = "export") =>
        /\ Len(main_table_csv.rows) = 3
        /\ Len(main_table) = 3
        /\ \A i \in 1..3 :
              main_table[i].ClientTimestamp =
                  blockpy_timestamp_to_iso8601(int(ScenarioRecords[i].timestamp))
        /\ main_table[1].CodeStateID = Some(1) /\ main_table[1].Score = Some(0)
        /\ main_table[2].CodeStateID = Some(1) /\ main_table[2].Score = Some(1)
        /\ main_table[3].CodeStateID = Some(2) /\ main_table[3].Score = Some(1)
        /\ <<"1">> \in DOMAIN code_states_fs.dirs
        /\ <<"2">> \in DOMAIN code_states_fs.dirs
        /\ code_states_fs.dirs[<<"1">>] = ("__main__.py" :> Print1)
        /\ code_states_fs.dirs[<<"2">>] = ("__main__.py" :> Print2)

\* The first step of C8 alone: ingesting record (a) ends without an error.
C8_FirstRecordIngested ==
    (Ingested /\ last.record = ScenarioRecords[1]) => last.outcome = "returned"

\* The call classified the record as an event of its own (no skip, no
\* drop, no unclassified pair).
ClassifiedEvent ==
    /\ Ingested
    /\ ~SkipsRecord(last.record)
    /\ CanInt(last.record.timestamp)
    /\ last.result.kind \in {"str", "dict"}

FileEdit == ClassifiedEvent /\ last.result.EventType = "File.Edit"
OtherEvent == ClassifiedEvent /\ last.result.EventType # "File.Edit"

\* C14: a call of log_blockpy_event on a record classified as File.Edit
\* leaves the record's body registered in the snapshot store and the event
\* appended with the id the store maps the body to; a call on a record of
\* any other type appends the event with CodeStateID unset.
C14_EditRegistersSnapshot ==
    /\ FileEdit =>
          /\ last.outcome = "returned"
          /\ StrKey(last.record.body) \in DOMAIN code_files
          /\ main_table # <<>>
          /\ main_table[Len(main_table)].EventType = "File.Edit"
          /\ main_table[Len(main_table)].CodeStateID
                = Some(code_files[StrKey(last.record.body)])
    /\ OtherEvent =>
          /\ last.outcome = "returned"
          /\ main_table # <<>>
          /\ main_table[Len(main_table)].EventType = last.result.EventType
          /\ IsUnset(main_table[Len(main_table)].CodeStateID)

\* The second half of C14 alone: events that are no file edits.
C14_OtherTypesUnset ==
    OtherEvent =>
        /\ last.outcome = "returned"
        /\ main_table[Len(main_table)].EventType = last.result.EventType
        /\ IsUnset(main_table[Len(main_table)].CodeStateID)

\* The first half of C14 for editor/reset alone.
C14_ResetRegistersSnapshot ==
    (FileEdit /\ last.record.event = "editor") =>
        /\ last.outcome = "returned"
        /\ StrKey(last.record.body) \in DOMAIN code_files

\* The column of MainTable.csv that the header names CodeStateID.
CodeStateIDColumn ==
    CHOOSE c \in 1..Len(main_table_csv.header) : main_table_csv.header[c] = "CodeStateID"

\* C16: after records were ingested through log_blockpy_event and the
\* object exported, every row of MainTable.csv carries under CodeStateID
\* the finalized id of its event, that id is one the snapshot store
\* issued, and CodeStates has a directory of that name; CodeStates/0 is
\* there in any case.
C16_ReferentialIntegrity ==
    last.op = "export" =>
        /\ Len(main_table_csv.rows) = Len(main_table)
        /\ <<"0">> \in DOMAIN code_states_fs.dirs
        /\ \A r \in 1..Len(main_table_csv.rows) :
              LET cell == main_table_csv.rows[r][CodeStateIDColumn]
              IN  /\ cell = IntCell(main_table[r].CodeStateID)
                  /\ \E id \in Range(code_files) : cell.text = Decimal(id)
                  /\ cell.text \in DOMAIN code_states_fs.dirs

\* Two events ingested, none of which carried code, exported: both rows
\* name snapshot 0, which no record registered.
C16_Witness ==
    /\ last.op = "export"
    /\ Len(main_table_csv.rows) = 2
    /\ issued = {}
    /\ \A r \in 1..2 : main_table_csv.rows[r][CodeStateIDColumn].text = <<"0">>
    /\ DOMAIN code_states_fs.dirs = {<<"0">>}

(***************************************************************************)
(* Several runs in one process: a new ProgSnap2 object is constructed      *)
(* after another one logged events.  Event.MAX_EVENT_ID is an attribute of *)
(* the class Event, set to 0 once, when the class statement is executed.   *)
(***************************************************************************)
MaxEarlierEvents == 1   \* no new object once more events than this were logged

\* ProgSnap2.__init__: a new object takes the place of the one before.
\* Nothing in it touches the class Event, nor the files on disk.
ProgSnap2__init__ ==
    /\ MAX_EVENT_ID <= MaxEarlierEvents
    /\ code_files' = InitCodeFiles
    /\ CODE_ID' = InitCodeId
    /\ main_table' = <<>>
    /\ issued' = {}
    /\ firstSeen' = <<>>
    /\ pre_table' = <<>>
    /\ last' = Call("__init__")
    /\ scen' = 0
    /\ UNCHANGED <<MAX_EVENT_ID, diskVars>>

RunArgs ==
    {[ClientTimestamp |-> blockpy_timestamp_to_iso8601(tc[1]),
      ServerTimestamp |-> <<"0", "0", ":", "0", "0">>,
      SubjectID |-> "u1",
      AssignmentID |-> "a1",
      EventType |-> "X-View.Step",
      CodeStateID |-> tc[2],
      Score |-> tc[2],
      ToolInstances |-> "BPY4",
      kwargs |-> EmptyMap] :
        tc \in {<<59, Unset>>, <<60, Unset>>, <<60, Some(1)>>}}

NextRuns ==
    \/ ProgSnap2__init__
    \/ \E a \in RunArgs : LogEvent(a)
    \/ FinalizeTable
    \/ Export

SpecRuns == InitTable /\ [][NextRuns]_vars

\* C11: the first event logged into a newly created ProgSnap2 object has
\* the EventID it has in a process that logged nothing before (0),
\* whatever other objects logged earlier.
C11_FirstEventIdPerRun ==
    (last.op = "log_event" /\ Len(main_table) = 1) => main_table[1].EventID = 0

\* The fields finalize_table has no business with: what an event is.
Origin(e) ==
    [EventID |-> e.EventID, ClientTimestamp |-> e.ClientTimestamp,
     ServerTimestamp |-> e.ServerTimestamp, SubjectID |-> e.SubjectID,
     AssignmentID |-> e.AssignmentID, EventType |-> e.EventType,
     ToolInstances |-> e.ToolInstances, optional |-> e.optional]

EventIDs(table) == {table[i].EventID : i \in 1..Len(table)}

\* C12: no two events of a table have the same EventID; log_event gives
\* the new event an EventID above those of all events created before it
\* and leaves theirs alone; finalize_table and export give back the same
\* events with the same EventIDs, whatever Order they assign.
C12_EventIdsUniqueAndOrdered ==
    [][/\ \A i \in 1..Len(main_table') : \A j \in 1..Len(main_table') :
              i # j => main_table'[i].EventID # main_table'[j].EventID
       /\ last'.op = "log_event" =>
              /\ Len(main_table') = Len(main_table) + 1
              /\ SubSeq(main_table', 1, Len(main_table)) = main_table
              /\ \A id \in EventIDs(main_table) :
                    id < main_table'[Len(main_table')].EventID
       /\ last'.op \in {"finalize_table", "export"} =>
              /\ Len(main_table') = Len(main_table)
              /\ {Origin(e) : e \in Range(main_table')}
                    = {Origin(e) : e \in Range(main_table)}]_vars

\* A second object's table, finalized into an order that is not the order
\* of creation.
C12_Witness ==
    /\ last.op \in {"finalize_table", "export"}
    /\ Len(main_table) = 3
    /\ main_table[1].EventID > main_table[2].EventID
    /\ \A i \in 1..3 : main_table[i].EventID > 0
    /\ \A i \in 1..3 : main_table[i].Order = Some(i - 1)

(***************************************************************************)
(* One ProgSnap2 object over its life: events and snapshots logged,        *)
(* finalize_table and export called, in any order and any number of times. *)
(***************************************************************************)
ObjectSubmissions == {StrSubmission(Print1), StrSubmission(Print2)}

NextObject ==
    \/ \E a \in RunArgs : LogEvent(a)
    \/ \E s \in ObjectSubmissions : LogCodeState(s)
    \/ FinalizeTable
    \/ Export

SpecObject == InitTable /\ [][NextObject]_vars

\* The event of the table after a call that has the EventID of e.
After(e) == CHOOSE f \in Range(main_table') : f.EventID = e.EventID

\* C15: an event that finalize_table gave an Order keeps its Order, its
\* CodeStateID and its Score through every later log_event,
\* log_code_state, finalize_table and export on the same object.
C15_FinalizedFieldsKept ==
    [][\A e \in Range(main_table) :
          ~IsUnset(e.Order) =>
              /\ e.EventID \in EventIDs(main_table')
              /\ After(e).Order = e.Order
              /\ After(e).CodeStateID = e.CodeStateID
              /\ After(e).Score = e.Score]_vars

\* The part of C15 about CodeStateID and Score alone.
C15_SnapshotAndScoreKept ==
    [][\A e \in Range(main_table) :
          ~IsUnset(e.Order) =>
              /\ e.EventID \in EventIDs(main_table')
              /\ After(e).CodeStateID = e.CodeStateID
              /\ After(e).Score = e.Score]_vars

=============================================================================
